---------------------------- MODULE Spec2Model ----------------------------
(***************************************************************************)
(* A model of ATS_Resume.py: the Streamlit page of the ATS Resume Analyzer *)
(* (API-key check, PDF text extraction, the tabs and their buttons), the   *)
(* prompt gateway get_model_response and the keyword_coverage analysis.    *)
(*                                                                         *)
(* Text is modelled at character level: a Python str is a sequence of      *)
(* one-character strings, so that lower(), strip(), split() and the regex  *)
(* \b\w+\b are computed as Python computes them.  Python's None is the     *)
(* one-element sequence None, whose element is not a character.            *)
(***************************************************************************)
EXTENDS Naturals, Sequences, FiniteSets

VARIABLES
    \* ---- the page (specification Spec): the process, the widgets, one script run
    GROQ_API_KEY,    \* os.getenv("GROQ_API_KEY"): None, "" or a key
    job_desc,        \* the text area's value
    upload_file,     \* the file uploader's value
    lang,            \* the select box's value
    pc,              \* where the script run is
    tab,             \* the button the run is at, in source order (pc = "tabs")
    pressed,         \* the button whose click caused this run, or "none"
    model,           \* "ChatGroq" once line 21 has run in this run
    resume_text,     \* the run's resume_text, None until assigned
    widgets,         \* the widgets this run has rendered
    messages,        \* what this run has shown
    running,         \* the operations in progress
    n_extract,       \* extract_pdf_text calls of this run
    n_remote,        \* prompts this run has sent to the remote model
    n_keyword,       \* keyword_coverage calls of this run
    sent,            \* the last prompt this run sent
    coverage,        \* the last keyword_coverage result of this run
    \* ---- the keyword_coverage call (specification SpecKW)
    kw_pc,           \* "call" before keyword_coverage runs, "returned" after
    kw_job_desc,     \* argument job_desc
    kw_resume_text,  \* argument resume_text
    kw_jd_keywords,  \* local jd_keywords after line 161
    kw_matched,      \* returned matched
    kw_missing,      \* returned missing
    \* ---- direct calls of get_model_response (specification SpecGW)
    gw_last,         \* the latest call: its arguments and what it did
    gw_prev          \* the call before it

uivars == <<GROQ_API_KEY, job_desc, upload_file, lang, pc, tab, pressed, model,
            resume_text, widgets, messages, running, n_extract, n_remote,
            n_keyword, sent, coverage>>

kwvars == <<kw_pc, kw_job_desc, kw_resume_text, kw_jd_keywords, kw_matched, kw_missing>>

gwvars == <<gw_last, gw_prev>>

vars == <<uivars, kwvars, gwvars>>

-----------------------------------------------------------------------------
(* Python values *)

None == <<"NoneType">>

\* Python truthiness of a str-or-None value: `if x` / `not x`.
Truthy(v) == v /= None /\ v /= <<>>

UpperLetters == <<"A","B","C","D","E","F","G","H","I","J","K","L","M",
                  "N","O","P","Q","R","S","T","U","V","W","X","Y","Z">>
LowerLetters == <<"a","b","c","d","e","f","g","h","i","j","k","l","m",
                  "n","o","p","q","r","s","t","u","v","w","x","y","z">>
Digits == {"0","1","2","3","4","5","6","7","8","9"}

Range(s) == {s[i] : i \in DOMAIN s}

\* \w of the re module on the characters modelled.
WordChars == Range(UpperLetters) \cup Range(LowerLetters) \cup Digits \cup {"_"}

\* What str.split() and str.strip() take for whitespace.
Whitespace == {" ", "\t", "\n", "\r"}

LowerChar(c) ==
    IF \E i \in DOMAIN UpperLetters : UpperLetters[i] = c
    THEN LowerLetters[CHOOSE i \in DOMAIN UpperLetters : UpperLetters[i] = c]
    ELSE c

\* str.lower()
Lower(s) == [i \in DOMAIN s |-> LowerChar(s[i])]

\* s[i..j], 1-based and inclusive
Slice(s, i, j) == SubSeq(s, i, j)

-----------------------------------------------------------------------------
(* extract_pdf_text, lines 31-41.  An uploaded file is what pdfplumber     *)
(* makes of it: whether it opens, and for each page what extract_text()    *)
(* gives: a text, "", None, or an exception.                               *)

\* page.extract_text() raising
Raises == <<"Exception">>

RECURSIVE LStrip(_)
LStrip(s) == IF s /= <<>> /\ Head(s) \in Whitespace THEN LStrip(Tail(s)) ELSE s

RECURSIVE RStrip(_)
RStrip(s) ==
    IF s /= <<>> /\ s[Len(s)] \in Whitespace THEN RStrip(SubSeq(s, 1, Len(s) - 1)) ELSE s

\* Variant: rstrip() for strip().
StripRightOnly(s) == RStrip(s)

\* str.strip()
Strip(s) == RStrip(LStrip(s))

\* lines 35-39: the loop over the pages from `text` on, then the return.
RECURSIVE ExtractPages(_, _)
ExtractPages(pages, text) ==
    IF pages = <<>> THEN Strip(text)
    ELSE LET page_text == Head(pages)
         IN  IF page_text = Raises THEN None
             ELSE IF Truthy(page_text)
                  THEN ExtractPages(Tail(pages), text \o page_text \o <<"\n">>)
                  ELSE ExtractPages(Tail(pages), text)

extract_pdf_text(uploaded_file) ==
    IF uploaded_file.opens THEN ExtractPages(uploaded_file.pages, <<>>) ELSE None

-----------------------------------------------------------------------------
(* keyword_coverage, lines 158-167 *)

\* The length a job-description word must exceed (line 160).
MinWordLen == 3

\* \b at the gap before position i (1 <= i <= Len(s)+1).
WordBoundary(s, i) ==
    LET before == i > 1 /\ s[i-1] \in WordChars
        after  == i <= Len(s) /\ s[i] \in WordChars
    IN  before /= after

\* The end of the greedy \w+ started at i.
RECURSIVE RunEnd(_, _)
RunEnd(s, j) ==
    IF j < Len(s) /\ s[j+1] \in WordChars THEN RunEnd(s, j+1) ELSE j

\* re.findall(r"\b\w+\b", s): leftmost non-overlapping matches from position i on.
RECURSIVE FindAllFrom(_, _)
FindAllFrom(s, i) ==
    IF i > Len(s) THEN <<>>
    ELSE IF s[i] \in WordChars /\ WordBoundary(s, i)
         THEN LET j == RunEnd(s, i)
              IN  IF WordBoundary(s, j+1)
                  THEN <<Slice(s, i, j)>> \o FindAllFrom(s, j+1)
                  ELSE FindAllFrom(s, i+1)
         ELSE FindAllFrom(s, i+1)

FindAllWords(s) == FindAllFrom(s, 1)

\* Variant: the comparison taken as >= 3.
IsLongWordFromThree(w) == Len(w) >= MinWordLen

\* line 160: [word for word in jd_keywords if len(word) > 3]
IsLongWord(w) == Len(w) > MinWordLen

LongWords(ws) == SelectSeq(ws, IsLongWord)

\* Variant: the list kept as it is, repeats included.
UniqueKeepsRepeats(xs) == {xs}

\* The lists list(set(xs)) can be: the distinct elements in any order (line 161).
Unique(xs) ==
    LET S == Range(xs)
        n == Cardinality(S)
    IN  {f \in [1..n -> S] : \A i, j \in 1..n : f[i] = f[j] => i = j}

\* lines 159-161: the values jd_keywords can take.
JdKeywords(jd) == Unique(LongWords(FindAllWords(Lower(jd))))

\* str.split() with no argument: the maximal runs of non-whitespace, from i on.
RECURSIVE TokenEnd(_, _)
TokenEnd(s, j) ==
    IF j < Len(s) /\ s[j+1] \notin Whitespace THEN TokenEnd(s, j+1) ELSE j

RECURSIVE SplitFrom(_, _)
SplitFrom(s, i) ==
    IF i > Len(s) THEN <<>>
    ELSE IF s[i] \in Whitespace THEN SplitFrom(s, i+1)
         ELSE LET j == TokenEnd(s, i)
              IN  <<Slice(s, i, j)>> \o SplitFrom(s, j+1)

Split(s) == SplitFrom(s, 1)

\* Variant: the resume tokenised like the job description, by the regex.
ResumeWordsByRegex(text) == FindAllWords(Lower(text))

\* line 163
ResumeWords(text) == Split(Lower(text))

\* `kw in resume_words`
InList(x, xs) == \E i \in DOMAIN xs : xs[i] = x

RECURSIVE Filter(_, _, _)
Filter(kws, words, keep) ==
    IF kws = <<>> THEN <<>>
    ELSE (IF InList(Head(kws), words) = keep THEN <<Head(kws)>> ELSE <<>>)
         \o Filter(Tail(kws), words, keep)

\* line 164
Matched(jd_keywords, resume_words) == Filter(jd_keywords, resume_words, TRUE)

\* line 165
Missing(jd_keywords, resume_words) == Filter(jd_keywords, resume_words, FALSE)

\* The results a call can return, each with the jd_keywords list it was built from.
keyword_coverage(jd, text) ==
    { [jd_keywords |-> ks,
       matched     |-> Matched(ks, ResumeWords(text)),
       missing     |-> Missing(ks, ResumeWords(text))] :
      ks \in JdKeywords(jd) }

-----------------------------------------------------------------------------
(* The prompt templates, lines 45-127.  A template is its literal text cut *)
(* at the placeholders; a rendered prompt is the sequence of its literal   *)
(* blocks (one element each) and of the characters substituted between     *)
(* them, so that joining the elements gives the prompt text.               *)

Lit(t) == [kind |-> "lit", text |-> t]
Var(n) == [kind |-> "var", text |-> n]

review_prompt ==
    [ input_variables |-> {"job_desc", "resume_text"},
      template |-> <<
        Lit("\n    You are an experienced HR Manager. \n    Review the following resume against the job description. \n    Highlight strengths and weaknesses clearly.\n\n    Job Description:\n    "),
        Var("job_desc"),
        Lit("\n\n    Resume:\n    "),
        Var("resume_text"),
        Lit("\n    ") >> ]

optimize_prompt ==
    [ input_variables |-> {"job_desc", "resume_text"},
      template |-> <<
        Lit("\n    You are a career coach. \n    Suggest concrete improvements to the resume so that it better matches the job description. \n    Provide actionable bullet points.\n\n    Job Description:\n    "),
        Var("job_desc"),
        Lit("\n\n    Resume:\n    "),
        Var("resume_text"),
        Lit("\n    ") >> ]

score_prompt ==
    [ input_variables |-> {"job_desc", "resume_text"},
      template |-> <<
        Lit("\n    You are an ATS (Applicant Tracking System). \n    Score the resume on a scale of 1-100 against the job description. \n    Also provide reasoning.\n\n    Job Description:\n    "),
        Var("job_desc"),
        Lit("\n\n    Resume:\n    "),
        Var("resume_text"),
        Lit("\n    ") >> ]

fit_prompt ==
    [ input_variables |-> {"job_desc", "resume_text"},
      template |-> <<
        Lit("\n    You are a career advisor. \n    Calculate the overall Job Fit Score (0-100) based on skills, experience, and job alignment.\n    Also explain why.\n\n    Job Description:\n    "),
        Var("job_desc"),
        Lit("\n\n    Resume:\n    "),
        Var("resume_text"),
        Lit("\n    ") >> ]

design_prompt ==
    [ input_variables |-> {"resume_text"},
      template |-> <<
        Lit("\n    You are a professional resume designer. \n    Suggest 3 modern ATS-friendly resume template styles and formatting tips \n    (fonts, layout, sections, keywords). \n    Keep suggestions concise and practical.\n\n    Resume:\n    "),
        Var("resume_text"),
        Lit("\n    ") >> ]

translate_prompt ==
    [ input_variables |-> {"resume_text", "language"},
      template |-> <<
        Lit("\n    Translate or rewrite this resume into "),
        Var("language"),
        Lit(", \n    ensuring it remains professional and ATS-friendly.\n\n    Resume:\n    "),
        Var("resume_text"),
        Lit("\n    ") >> ]

\* What str.format writes for a value: str(v).
Str(v) == IF v = None THEN <<"N","o","n","e">> ELSE v

\* The f-string formatting of a template's parts with the given inputs.
RECURSIVE FormatParts(_, _)
FormatParts(parts, inputs) ==
    IF parts = <<>> THEN <<>>
    ELSE (IF Head(parts).kind = "lit"
          THEN <<Head(parts).text>>
          ELSE Str(inputs[Head(parts).text]))
         \o FormatParts(Tail(parts), inputs)

\* chain.invoke(inputs) for chain = prompt | model | parser: the prompt is
\* rendered and sent to the model; an input dict lacking one of the
\* template's variables raises before anything is sent.
ChainInvoke(prompt, inputs) ==
    IF prompt.input_variables \subseteq DOMAIN inputs
    THEN [kind |-> "invoke", prompt |-> FormatParts(prompt.template, inputs), ret |-> <<>>]
    ELSE [kind |-> "raise", prompt |-> <<>>, ret |-> <<>>]

\* line 149
InvalidMode == <<"Invalid mode selected!">>

\* Variant: the design branch builds its chain from review_prompt.
get_model_response_design_as_review(jd, text, mode, extra) ==
    IF mode = "review"
    THEN ChainInvoke(review_prompt, [job_desc |-> jd, resume_text |-> text])
    ELSE IF mode = "optimize"
    THEN ChainInvoke(optimize_prompt, [job_desc |-> jd, resume_text |-> text])
    ELSE IF mode = "score"
    THEN ChainInvoke(score_prompt, [job_desc |-> jd, resume_text |-> text])
    ELSE IF mode = "fit"
    THEN ChainInvoke(fit_prompt, [job_desc |-> jd, resume_text |-> text])
    ELSE IF mode = "design"
    THEN ChainInvoke(review_prompt, [job_desc |-> jd, resume_text |-> text])
    ELSE IF mode = "translate"
    THEN ChainInvoke(translate_prompt, [resume_text |-> text, language |-> extra])
    ELSE [kind |-> "sentinel", prompt |-> <<>>, ret |-> InvalidMode]

\* Variant: no final else, an unknown mode falls through to the review chain.
get_model_response_default_review(jd, text, mode, extra) ==
    IF mode = "optimize"
    THEN ChainInvoke(optimize_prompt, [job_desc |-> jd, resume_text |-> text])
    ELSE IF mode = "score"
    THEN ChainInvoke(score_prompt, [job_desc |-> jd, resume_text |-> text])
    ELSE IF mode = "fit"
    THEN ChainInvoke(fit_prompt, [job_desc |-> jd, resume_text |-> text])
    ELSE IF mode = "design"
    THEN ChainInvoke(design_prompt, [job_desc |-> jd, resume_text |-> text])
    ELSE IF mode = "translate"
    THEN ChainInvoke(translate_prompt, [resume_text |-> text, language |-> extra])
    ELSE ChainInvoke(review_prompt, [job_desc |-> jd, resume_text |-> text])

\* lines 131-154.  kind "invoke": `prompt` is sent to the remote model and its
\* answer returned; "sentinel": `ret` is returned and nothing is sent;
\* "raise": an exception leaves the function and nothing is sent.
get_model_response(jd, text, mode, extra) ==
    IF mode = "review"
    THEN ChainInvoke(review_prompt, [job_desc |-> jd, resume_text |-> text])
    ELSE IF mode = "optimize"
    THEN ChainInvoke(optimize_prompt, [job_desc |-> jd, resume_text |-> text])
    ELSE IF mode = "score"
    THEN ChainInvoke(score_prompt, [job_desc |-> jd, resume_text |-> text])
    ELSE IF mode = "fit"
    THEN ChainInvoke(fit_prompt, [job_desc |-> jd, resume_text |-> text])
    ELSE IF mode = "design"
    THEN ChainInvoke(design_prompt, [job_desc |-> jd, resume_text |-> text])
    ELSE IF mode = "translate"
    THEN ChainInvoke(translate_prompt, [resume_text |-> text, language |-> extra])
    ELSE [kind |-> "sentinel", prompt |-> <<>>, ret |-> InvalidMode]

-----------------------------------------------------------------------------
(* The page, lines 13-27 and 171-246: one script run per user action *)

\* Variant: `if GROQ_API_KEY is None`.
KeyMissingOnNone(key) == key = None

\* line 16: `if not GROQ_API_KEY`
KeyMissing(key) == ~Truthy(key)

\* Variant: `if resume_text is None`.
ExtractionFailedOnNone(text) == text = None

\* line 181: `if not resume_text`
ExtractionFailed(text) == ~Truthy(text)

\* Variant: every button reads as clicked in a run that a click caused.
ButtonClickedAny(label, clicked) == clicked /= "none"

\* st.button(label) in a run caused by the click of `clicked`
ButtonClicked(label, clicked) == label = clicked

\* The buttons in the order the script reaches them (lines 192-243).
Buttons ==
    << "Run Review", "Run Optimization", "Get ATS Score", "Get Job Fit Score",
       "Analyze Keyword Coverage", "Get Resume Design Suggestions", "Translate Resume" >>

KeywordButton == "Analyze Keyword Coverage"

\* line 242
Languages == << <<"F","r","e","n","c","h">>,
       <<"S","p","a","n","i","s","h">>,
       <<"G","e","r","m","a","n">>,
       <<"H","i","n","d","i">>,
       <<"J","a","p","a","n","e","s","e">>,
       <<"M","a","r","a","t","h","i">> >>

\* The get_model_response call under each button (lines 193-244).
ButtonCall(label, jd, text, lg) ==
    CASE label = "Run Review" -> get_model_response(jd, text, "review", None)
      [] label = "Run Optimization" -> get_model_response(jd, text, "optimize", None)
      [] label = "Get ATS Score" -> get_model_response(jd, text, "score", None)
      [] label = "Get Job Fit Score" -> get_model_response(jd, text, "fit", None)
      [] label = "Get Resume Design Suggestions" -> get_model_response(None, text, "design", None)
      [] label = "Translate Resume" -> get_model_response(None, text, "translate", lg)

NoFile == [present |-> FALSE, opens |-> FALSE, pages |-> <<>>]

NoCoverage == [jd_keywords |-> <<>>, matched |-> <<>>, missing |-> <<>>]

\* A fresh script run caused by the click of `clicked` ("none": any other cause).
NewRun(clicked) ==
    /\ pc' = "startup"
    /\ tab' = 1
    /\ pressed' = clicked
    /\ model' = "unset"
    /\ resume_text' = None
    /\ widgets' = {}
    /\ messages' = {}
    /\ running' = {}
    /\ n_extract' = 0
    /\ n_remote' = 0
    /\ n_keyword' = 0
    /\ sent' = <<>>
    /\ coverage' = NoCoverage

Finished == pc \in {"done", "stopped", "failed"}

\* lines 13-27: the key check, then the model and the parser
Startup ==
    /\ pc = "startup"
    /\ IF KeyMissing(GROQ_API_KEY)
       THEN /\ messages' = messages \cup {"GROQ_API_KEY not found"}
            /\ pc' = "stopped"
            /\ model' = model
       ELSE /\ model' = "ChatGroq"
            /\ pc' = "inputs"
            /\ messages' = messages
    /\ UNCHANGED <<kwvars, gwvars, GROQ_API_KEY, job_desc, upload_file, lang, tab, pressed, resume_text,
                   widgets, running, n_extract, n_remote, n_keyword, sent, coverage>>

\* lines 171-178: title, text area, uploader, `if upload_file`
RenderInputs ==
    /\ pc = "inputs"
    /\ widgets' = widgets \cup {"job_desc", "upload_file"}
    /\ IF upload_file.present
       THEN /\ messages' = messages \cup {"Resume uploaded successfully"}
            /\ pc' = "extract"
       ELSE /\ messages' = messages
            /\ pc' = "done"
    /\ UNCHANGED <<kwvars, gwvars, GROQ_API_KEY, job_desc, upload_file, lang, tab, pressed, model,
                   resume_text, running, n_extract, n_remote, n_keyword, sent, coverage>>

\* line 180: extract_pdf_text is entered
ExtractCall ==
    /\ pc = "extract"
    /\ running' = running \cup {"extract"}
    /\ n_extract' = n_extract + 1
    /\ pc' = "extracting"
    /\ UNCHANGED <<kwvars, gwvars, GROQ_API_KEY, job_desc, upload_file, lang, tab, pressed, model,
                   resume_text, widgets, messages, n_remote, n_keyword, sent, coverage>>

\* line 180: extract_pdf_text returns
ExtractReturn ==
    /\ pc = "extracting"
    /\ resume_text' = extract_pdf_text(upload_file)
    /\ running' = running \ {"extract"}
    /\ pc' = "check"
    /\ UNCHANGED <<kwvars, gwvars, GROQ_API_KEY, job_desc, upload_file, lang, tab, pressed, model,
                   widgets, messages, n_extract, n_remote, n_keyword, sent, coverage>>

\* lines 181-189: the check of the extracted text, then the tabs
CheckExtract ==
    /\ pc = "check"
    /\ IF ExtractionFailed(resume_text)
       THEN /\ messages' = messages \cup {"Could not extract text from PDF"}
            /\ pc' = "stopped"
       ELSE /\ messages' = messages
            /\ pc' = "tabs"
    /\ UNCHANGED <<kwvars, gwvars, GROQ_API_KEY, job_desc, upload_file, lang, tab, pressed, model,
                   resume_text, widgets, running, n_extract, n_remote, n_keyword,
                   sent, coverage>>

\* What rendering button number i adds (the select box comes with the last one).
Rendered(i) == {Buttons[i]} \cup (IF Buttons[i] = "Translate Resume" THEN {"lang"} ELSE {})

\* a button that was not clicked: its block is skipped
TabSkip ==
    /\ pc = "tabs"
    /\ tab \in DOMAIN Buttons
    /\ ~ButtonClicked(Buttons[tab], pressed)
    /\ widgets' = widgets \cup Rendered(tab)
    /\ tab' = tab + 1
    /\ UNCHANGED <<kwvars, gwvars, GROQ_API_KEY, job_desc, upload_file, lang, pc, pressed, model,
                   resume_text, messages, running, n_extract, n_remote, n_keyword,
                   sent, coverage>>

\* lines 216-230: keyword_coverage and its display
TabKeyword ==
    /\ pc = "tabs"
    /\ tab \in DOMAIN Buttons
    /\ Buttons[tab] = KeywordButton
    /\ ButtonClicked(Buttons[tab], pressed)
    /\ widgets' = widgets \cup Rendered(tab)
    /\ n_keyword' = n_keyword + 1
    /\ coverage' \in keyword_coverage(job_desc, resume_text)
    /\ messages' = messages \cup {"Keyword Coverage"}
    /\ tab' = tab + 1
    /\ UNCHANGED <<kwvars, gwvars, GROQ_API_KEY, job_desc, upload_file, lang, pc, pressed, model,
                   resume_text, running, n_extract, n_remote, sent>>

\* lines 192-213 and 236-246: get_model_response is entered and, unless it
\* returns or raises at once, sends its prompt
TabGateway ==
    /\ pc = "tabs"
    /\ tab \in DOMAIN Buttons
    /\ Buttons[tab] /= KeywordButton
    /\ ButtonClicked(Buttons[tab], pressed)
    /\ widgets' = widgets \cup Rendered(tab)
    /\ LET call == ButtonCall(Buttons[tab], job_desc, resume_text, lang)
       IN  CASE call.kind = "invoke" ->
                  /\ running' = running \cup {"remote"}
                  /\ n_remote' = n_remote + 1
                  /\ sent' = call.prompt
                  /\ pc' = "remote"
                  /\ UNCHANGED <<tab, messages>>
             [] call.kind = "sentinel" ->
                  /\ messages' = messages \cup {"result"}
                  /\ tab' = tab + 1
                  /\ UNCHANGED <<running, n_remote, sent, pc>>
             [] call.kind = "raise" ->
                  /\ messages' = messages \cup {"exception"}
                  /\ pc' = "failed"
                  /\ UNCHANGED <<running, n_remote, sent, tab>>
    /\ UNCHANGED <<kwvars, gwvars, GROQ_API_KEY, job_desc, upload_file, lang, pressed, model,
                   resume_text, n_extract, n_keyword, coverage>>

\* the remote model answers: the result is written and the script goes on
RemoteReturn ==
    /\ pc = "remote"
    /\ running' = running \ {"remote"}
    /\ messages' = messages \cup {"result"}
    /\ pc' = "tabs"
    /\ tab' = tab + 1
    /\ UNCHANGED <<kwvars, gwvars, GROQ_API_KEY, job_desc, upload_file, lang, pressed, model,
                   resume_text, widgets, n_extract, n_remote, n_keyword, sent, coverage>>

\* the remote call raises (network, quota): nothing catches it, the run ends
RemoteRaise ==
    /\ pc = "remote"
    /\ running' = running \ {"remote"}
    /\ messages' = messages \cup {"exception"}
    /\ pc' = "failed"
    /\ UNCHANGED <<kwvars, gwvars, GROQ_API_KEY, job_desc, upload_file, lang, tab, pressed, model,
                   resume_text, widgets, n_extract, n_remote, n_keyword, sent, coverage>>

\* the end of the script
ScriptEnd ==
    /\ pc = "tabs"
    /\ tab = Len(Buttons) + 1
    /\ pc' = "done"
    /\ UNCHANGED <<kwvars, gwvars, GROQ_API_KEY, job_desc, upload_file, lang, tab, pressed, model,
                   resume_text, widgets, messages, running, n_extract, n_remote,
                   n_keyword, sent, coverage>>

(* The user: every action on a rendered widget causes a fresh run. *)

EditJobDesc(text) ==
    /\ Finished
    /\ "job_desc" \in widgets
    /\ text /= job_desc
    /\ job_desc' = text
    /\ NewRun("none")
    /\ UNCHANGED <<kwvars, gwvars, GROQ_API_KEY, upload_file, lang>>

Upload(file) ==
    /\ Finished
    /\ "upload_file" \in widgets
    /\ file /= upload_file
    /\ upload_file' = file
    /\ NewRun("none")
    /\ UNCHANGED <<kwvars, gwvars, GROQ_API_KEY, job_desc, lang>>

SelectLang(lg) ==
    /\ Finished
    /\ "lang" \in widgets
    /\ lg /= lang
    /\ lang' = lg
    /\ NewRun("none")
    /\ UNCHANGED <<kwvars, gwvars, GROQ_API_KEY, job_desc, upload_file>>

Press(label) ==
    /\ Finished
    /\ label \in widgets
    /\ NewRun(label)
    /\ UNCHANGED <<kwvars, gwvars, GROQ_API_KEY, job_desc, upload_file, lang>>

\* the page is run again with the widgets as they are
Rerun ==
    /\ Finished
    /\ NewRun("none")
    /\ UNCHANGED <<kwvars, gwvars, GROQ_API_KEY, job_desc, upload_file, lang>>

-----------------------------------------------------------------------------
(* Inputs of the keyword_coverage specification *)

ExampleJobDesc == <<"I"," ","a","m"," ","a"," ","G","o"," ","d","e","v","e","l","o","p","e","r"," ","w","i","t","h"," ","S","Q","L"," ","s","k","i","l","l","s">>

ExampleResume == <<"E","x","p","e","r","i","e","n","c","e","d"," ","d","e","v","e","l","o","p","e","r"," ","s","k","i","l","l","e","d"," ","i","n"," ","S","Q","L"," ","a","n","d"," ","G","o">>

\* Fragments the bounded texts are put together from: a capitalised word, a
\* three-letter word, a word with punctuation attached, and separators.
KWPieces ==
    { <<"J","a","v","a">>, <<"S","Q","L">>, <<"r","u","s","t",",">>,
      <<" ">>, <<"\n">>, <<"-">> }

MaxJdPieces == 3
MaxResumePieces == 1

RECURSIVE Flatten(_)
Flatten(ps) == IF ps = <<>> THEN <<>> ELSE Head(ps) \o Flatten(Tail(ps))

PieceTexts(n) == { Flatten(ps) : ps \in UNION { [1..k -> KWPieces] : k \in 0..n } }

KWJobDescs == PieceTexts(MaxJdPieces) \cup {ExampleJobDesc}

KWResumes == PieceTexts(MaxResumePieces) \cup {ExampleResume}

\* The keyword_coverage variables while another specification runs.
KWQuiet ==
    /\ kw_pc = "call"
    /\ kw_job_desc = <<>>
    /\ kw_resume_text = <<>>
    /\ kw_jd_keywords = <<>>
    /\ kw_matched = <<>>
    /\ kw_missing = <<>>

-----------------------------------------------------------------------------
(* Inputs of direct get_model_response calls *)

NoCall ==
    [ called |-> FALSE, job_desc |-> None, resume_text |-> None, mode |-> "",
      extra |-> None, kind |-> "none", prompt |-> <<>>, ret |-> <<>> ]

Modes == {"review", "optimize", "score", "fit", "design", "translate"}

GWModes == Modes \cup {"", "Review"}

GWJobDescs == { None, <<"J","a","v","a">> }

GWResumes == { <<"G","o">>, <<"J","a","v","a">> }

GWExtras == { None, <<>>, Languages[4] }

GWQuiet ==
    /\ gw_last = NoCall
    /\ gw_prev = NoCall

-----------------------------------------------------------------------------
(* Inputs of the page *)

Keys == { None, <<>>, <<"g","s","k","_","1">> }

\* What extract_text() can give for a page: nothing (None or ""), whitespace
\* only, a text, or an exception.
PageTexts == { None, <<>>, <<" ">>, <<"J","a","v","a">>, Raises }

MaxPages == 2

Files ==
    { [present |-> TRUE, opens |-> TRUE, pages |-> ps] :
        ps \in UNION { [1..n -> PageTexts] : n \in 0..MaxPages } }
    \cup { [present |-> TRUE, opens |-> FALSE, pages |-> <<>>] }

UIJobDescs == { <<>>, <<"J","a","v","a"," ","r","u","s","t",",">> }

\* The page's variables at the start of the first run, the key apart.
UIStart ==
    /\ job_desc = <<>>
    /\ upload_file = NoFile
    /\ lang = Languages[1]
    /\ pc = "startup"
    /\ tab = 1
    /\ pressed = "none"
    /\ model = "unset"
    /\ resume_text = None
    /\ widgets = {}
    /\ messages = {}
    /\ running = {}
    /\ n_extract = 0
    /\ n_remote = 0
    /\ n_keyword = 0
    /\ sent = <<>>
    /\ coverage = NoCoverage

UIQuiet == GROQ_API_KEY = None /\ UIStart

-----------------------------------------------------------------------------
(* Specification Spec: the page and its user *)

Init ==
    /\ GROQ_API_KEY \in Keys
    /\ UIStart
    /\ KWQuiet
    /\ GWQuiet

Next ==
    \/ Startup
    \/ RenderInputs
    \/ ExtractCall
    \/ ExtractReturn
    \/ CheckExtract
    \/ TabSkip
    \/ TabKeyword
    \/ TabGateway
    \/ RemoteReturn
    \/ RemoteRaise
    \/ ScriptEnd
    \/ \E text \in UIJobDescs : EditJobDesc(text)
    \/ \E file \in Files \cup {NoFile} : Upload(file)
    \/ \E i \in DOMAIN Languages : SelectLang(Languages[i])
    \/ \E i \in DOMAIN Buttons : Press(Buttons[i])
    \/ Rerun

Spec == Init /\ [][Next]_vars

-----------------------------------------------------------------------------
(* Specification SpecKW: one keyword_coverage call on bounded texts *)

InitKW ==
    /\ kw_pc = "call"
    /\ kw_job_desc \in KWJobDescs
    /\ kw_resume_text \in KWResumes
    /\ kw_jd_keywords = <<>>
    /\ kw_matched = <<>>
    /\ kw_missing = <<>>
    /\ UIQuiet
    /\ GWQuiet

\* matched, missing = keyword_coverage(job_desc, resume_text)
KeywordCoverageCall ==
    /\ kw_pc = "call"
    /\ \E r \in keyword_coverage(kw_job_desc, kw_resume_text) :
          /\ kw_jd_keywords' = r.jd_keywords
          /\ kw_matched' = r.matched
          /\ kw_missing' = r.missing
    /\ kw_pc' = "returned"
    /\ UNCHANGED <<kw_job_desc, kw_resume_text, uivars, gwvars>>

NextKW == KeywordCoverageCall

SpecKW == InitKW /\ [][NextKW]_vars

-----------------------------------------------------------------------------
(* Specification SpecGW: get_model_response called again and again with    *)
(* arguments of any kind; the latest two calls are kept.                   *)

InitGW == GWQuiet /\ UIQuiet /\ KWQuiet

GatewayCall(jd, text, mode, extra) ==
    /\ gw_prev' = gw_last
    /\ LET r == get_model_response(jd, text, mode, extra)
       IN  gw_last' = [ called |-> TRUE, job_desc |-> jd, resume_text |-> text,
                        mode |-> mode, extra |-> extra,
                        kind |-> r.kind, prompt |-> r.prompt, ret |-> r.ret ]
    /\ UNCHANGED <<uivars, kwvars>>

NextGW ==
    \E jd \in GWJobDescs, text \in GWResumes, mode \in GWModes, extra \in GWExtras :
        GatewayCall(jd, text, mode, extra)

SpecGW == InitGW /\ [][NextGW]_vars

-----------------------------------------------------------------------------
(* What the claims about keyword_coverage speak of, stated position by     *)
(* position on the text rather than by the scan the code performs.         *)

WordDeveloper == <<"d","e","v","e","l","o","p","e","r">>
WordWith == <<"w","i","t","h">>
WordSql == <<"s","q","l">>
WordSkills == <<"s","k","i","l","l","s">>
WordI == <<"i">>
WordAm == <<"a","m">>
WordA == <<"a">>

\* s[i..j] is a maximal run of characters outside the set Sep.
MaximalRun(s, i, j, Sep) ==
    /\ i <= j
    /\ \A k \in i..j : s[k] \notin Sep
    /\ (i = 1 \/ s[i-1] \in Sep)
    /\ (j = Len(s) \/ s[j+1] \in Sep)

AllChars(s) == Range(s)

\* The lowercased maximal runs of word characters of s longer than 3.
LongWordRuns(s) ==
    LET NonWord == AllChars(s) \ WordChars
    IN  { Lower(SubSeq(s, p[1], p[2])) : p \in
            { q \in (1..Len(s)) \X (1..Len(s)) :
                /\ q[2] - q[1] + 1 > 3
                /\ MaximalRun(s, q[1], q[2], NonWord) } }

\* The lowercased maximal runs of non-whitespace characters of s.
WhitespaceTokens(s) ==
    { Lower(SubSeq(s, p[1], p[2])) : p \in
        { q \in (1..Len(s)) \X (1..Len(s)) :
            MaximalRun(s, q[1], q[2], Whitespace) } }

Occurrences(x, xs) == Cardinality({i \in DOMAIN xs : xs[i] = x})

\* C1: the matched and missing sequences partition the deduplicated keyword
\* set of the job description: as sets their union is the keyword set and
\* their intersection is empty, and every keyword occurs exactly once in the
\* two sequences together.
C1_Partition ==
    kw_pc = "returned" =>
        LET keywords == LongWordRuns(kw_job_desc)
        IN  /\ Range(kw_matched) \cup Range(kw_missing) = keywords
            /\ Range(kw_matched) \cap Range(kw_missing) = {}
            /\ \A k \in keywords :
                  Occurrences(k, kw_matched) + Occurrences(k, kw_missing) = 1
            /\ Len(kw_matched) + Len(kw_missing) = Cardinality(keywords)

\* A call that returns both a matched and a missing keyword.
C1_Witness ==
    /\ kw_pc = "returned"
    /\ kw_matched /= <<>>
    /\ kw_missing /= <<>>

\* C4 as stated: the keyword set keeps the lowercased words longer than 3
\* characters, and for "I am a Go developer with SQL skills" it excludes
\* "i", "am", "a" and includes "developer", "with", "sql", "skills".
C4_Original ==
    kw_pc = "returned" =>
        /\ Range(kw_jd_keywords) = LongWordRuns(kw_job_desc)
        /\ kw_job_desc = ExampleJobDesc =>
              /\ Range(kw_jd_keywords) \cap {WordI, WordAm, WordA} = {}
              /\ {WordDeveloper, WordWith, WordSql, WordSkills} \subseteq Range(kw_jd_keywords)

\* C4 amended: the keyword list holds, once each, exactly the lowercased
\* maximal word runs of the job description longer than 3 characters; for
\* "I am a Go developer with SQL skills" that is "developer", "with" and
\* "skills", and "i", "am", "a", "go" and the three-letter "sql" are excluded.
C4_KeywordSet ==
    kw_pc = "returned" =>
        /\ Range(kw_jd_keywords) = LongWordRuns(kw_job_desc)
        /\ \A i, j \in DOMAIN kw_jd_keywords : kw_jd_keywords[i] = kw_jd_keywords[j] => i = j
        /\ \A i \in DOMAIN kw_jd_keywords :
              Len(kw_jd_keywords[i]) > 3 /\ Lower(kw_jd_keywords[i]) = kw_jd_keywords[i]
        /\ kw_job_desc = ExampleJobDesc =>
              Range(kw_jd_keywords) = {WordDeveloper, WordWith, WordSkills}

C4_Witness ==
    /\ kw_pc = "returned"
    /\ kw_job_desc = ExampleJobDesc
    /\ WordSql \notin Range(kw_jd_keywords)
    /\ WordSkills \in Range(kw_jd_keywords)

\* C5 as stated: a keyword is matched exactly when it is one of the
\* lowercased whitespace-separated tokens of the resume and missing otherwise,
\* and for the example resume "developer" and "sql" are matched and "with"
\* and "skills" are missing.
C5_Original ==
    kw_pc = "returned" =>
        /\ \A k \in Range(kw_jd_keywords) :
              /\ k \in Range(kw_matched) <=> k \in WhitespaceTokens(kw_resume_text)
              /\ k \in Range(kw_missing) <=> k \notin WhitespaceTokens(kw_resume_text)
        /\ Range(kw_matched) \cup Range(kw_missing) \subseteq Range(kw_jd_keywords)
        /\ (kw_job_desc = ExampleJobDesc /\ kw_resume_text = ExampleResume) =>
              /\ {WordDeveloper, WordSql} \subseteq Range(kw_matched)
              /\ {WordWith, WordSkills} \subseteq Range(kw_missing)

\* C5 amended: a keyword is matched exactly when it is one of the lowercased
\* whitespace-separated tokens of the resume (punctuation kept) and missing
\* otherwise; for the example pair only "developer" is matched, "with" and
\* "skills" are missing, and "sql", not being a keyword, is in neither.
C5_Matching ==
    kw_pc = "returned" =>
        /\ \A k \in Range(kw_jd_keywords) :
              /\ k \in Range(kw_matched) <=> k \in WhitespaceTokens(kw_resume_text)
              /\ k \in Range(kw_missing) <=> k \notin WhitespaceTokens(kw_resume_text)
        /\ Range(kw_matched) \cup Range(kw_missing) \subseteq Range(kw_jd_keywords)
        /\ (kw_job_desc = ExampleJobDesc /\ kw_resume_text = ExampleResume) =>
              /\ Range(kw_matched) = {WordDeveloper}
              /\ Range(kw_missing) = {WordWith, WordSkills}
              /\ WordSql \notin Range(kw_matched) \cup Range(kw_missing)

C5_Witness ==
    /\ kw_pc = "returned"
    /\ kw_job_desc = ExampleJobDesc
    /\ kw_resume_text = ExampleResume
    /\ kw_matched = <<WordDeveloper>>

-----------------------------------------------------------------------------
(* What the claims about get_model_response speak of *)

JobDescModes == {"review", "optimize", "score", "fit"}

\* The template each mode is to select.
TemplateFor(mode) ==
    CASE mode = "review" -> review_prompt
      [] mode = "optimize" -> optimize_prompt
      [] mode = "score" -> score_prompt
      [] mode = "fit" -> fit_prompt
      [] mode = "design" -> design_prompt
      [] mode = "translate" -> translate_prompt

\* The placeholders each mode is to substitute.
RequiredPlaceholders(mode) ==
    IF mode \in JobDescModes THEN {"job_desc", "resume_text"}
    ELSE IF mode = "design" THEN {"resume_text"}
    ELSE {"resume_text", "language"}

Placeholders(prompt) ==
    { prompt.template[i].text :
        i \in { j \in DOMAIN prompt.template : prompt.template[j].kind = "var" } }

\* The template of the call's mode with job_desc, resume_text and language
\* replaced by the call's job_desc, resume_text and `language`.
Rendering(call, language) ==
    FormatParts(TemplateFor(call.mode).template,
                [job_desc |-> call.job_desc, resume_text |-> call.resume_text,
                 language |-> language])

\* Two calls that agree on the mode and on every argument the mode's
\* placeholders take.
SamePlaceholderValues(a, b) ==
    /\ a.mode = b.mode
    /\ a.resume_text = b.resume_text
    /\ a.mode \in JobDescModes => a.job_desc = b.job_desc
    /\ a.mode = "translate" => a.extra = b.extra

\* C6: for each of the six modes get_model_response sends the mode's own
\* template with exactly the required placeholders substituted: job_desc and
\* resume_text for review, optimize, score and fit, resume_text for design,
\* resume_text and language (the extra argument) for translate.  So two
\* calls that differ only in job_desc (design, translate) or only in extra
\* (every mode but translate) send the same prompt.
C6_Templates ==
    (gw_last.called /\ gw_last.mode \in Modes) =>
        /\ gw_last.kind = "invoke"
        /\ Placeholders(TemplateFor(gw_last.mode)) = RequiredPlaceholders(gw_last.mode)
        /\ gw_last.prompt = Rendering(gw_last, gw_last.extra)
        /\ (gw_prev.called /\ SamePlaceholderValues(gw_prev, gw_last)) =>
              gw_prev.prompt = gw_last.prompt

\* Two design calls with different job descriptions, sending the same prompt.
C6_Witness ==
    /\ gw_last.called
    /\ gw_prev.called
    /\ gw_last.mode = "design"
    /\ gw_prev.mode = "design"
    /\ gw_last.job_desc /= gw_prev.job_desc
    /\ gw_last.extra /= gw_prev.extra
    /\ gw_last.kind = "invoke"
    /\ gw_last.prompt = gw_prev.prompt

\* C7: in translate mode the language placeholder is replaced by the extra
\* value supplied, and a call without a language value (extra left at None)
\* is either rejected or sends the template with the placeholder empty.
C7_TranslateLanguage ==
    (gw_last.called /\ gw_last.mode = "translate") =>
        IF gw_last.extra /= None
        THEN gw_last.kind = "invoke" /\ gw_last.prompt = Rendering(gw_last, gw_last.extra)
        ELSE \/ gw_last.kind = "raise"
             \/ gw_last.kind = "invoke" /\ gw_last.prompt = Rendering(gw_last, <<>>)

\* C9: a mode other than the six returns the fixed string
\* "Invalid mode selected!", raises nothing and sends nothing to the model.
C9_InvalidMode ==
    (gw_last.called /\ gw_last.mode \notin Modes) =>
        /\ gw_last.kind = "sentinel"
        /\ gw_last.ret = <<"Invalid mode selected!">>
        /\ gw_last.prompt = <<>>

C9_Witness ==
    /\ gw_last.called
    /\ gw_last.mode = "Review"
    /\ gw_last.kind = "sentinel"

-----------------------------------------------------------------------------
(* What the claims about the page speak of *)

\* extract_pdf_text has been called and has returned in this run.
Extracted == n_extract > 0 /\ "extract" \notin running

\* A PDF that opens and whose pages all yield no text (a scan).
NoEmbeddedText(file) ==
    /\ file.present
    /\ file.opens
    /\ \A i \in DOMAIN file.pages : file.pages[i] \in {None, <<>>}

\* A PDF that opens, none of whose pages raises, and one of whose pages
\* has a character that is not whitespace.
Extractable(file) ==
    /\ file.present
    /\ file.opens
    /\ \A i \in DOMAIN file.pages : file.pages[i] /= Raises
    /\ \E i \in DOMAIN file.pages :
          /\ file.pages[i] /= None
          /\ \E k \in DOMAIN file.pages[i] : file.pages[i][k] \notin Whitespace

ExtractionFailureShown == "Could not extract text from PDF" \in messages

\* C2 as stated: for a PDF with no embedded text extract_pdf_text returns the
\* failure signal (None), never the empty string.
C2_Original ==
    (Extracted /\ NoEmbeddedText(upload_file)) => resume_text = None

\* C2 amended: for a PDF with no embedded text extract_pdf_text returns the
\* empty string, not None; None is returned exactly when opening the file or
\* reading a page raises; a returned text has no whitespace at either end;
\* and the page takes the empty string for a failure: the run reports the
\* extraction failure and stops.
C2_EmptyText ==
    Extracted =>
        /\ NoEmbeddedText(upload_file) => resume_text = <<>>
        /\ resume_text = None <=>
              (~upload_file.opens
                 \/ \E i \in DOMAIN upload_file.pages : upload_file.pages[i] = Raises)
        /\ (resume_text /= None /\ resume_text /= <<>>) =>
              /\ resume_text[1] \notin Whitespace
              /\ resume_text[Len(resume_text)] \notin Whitespace
        /\ (resume_text = <<>> /\ Finished) => (pc = "stopped" /\ ExtractionFailureShown)

\* A run stopped on a scanned PDF of at least one page.
C2_Witness ==
    /\ pc = "stopped"
    /\ NoEmbeddedText(upload_file)
    /\ upload_file.pages /= <<>>
    /\ resume_text = <<>>
    /\ ExtractionFailureShown

\* C3: while the uploaded file has no extractable text (it fails to parse, or
\* yields nothing or whitespace only), every run reports the extraction
\* failure and stops: whatever caused the run, no prompt is sent, no
\* keyword_coverage call is made and no button is rendered.
C3_FailureHalts ==
    (upload_file.present /\ ~Extractable(upload_file)) =>
        /\ n_remote = 0
        /\ n_keyword = 0
        /\ "remote" \notin running
        /\ pc \notin {"tabs", "remote", "failed", "done"}
        /\ widgets \cap Range(Buttons) = {}
        /\ Extracted => resume_text \in {None, <<>>}
        /\ Finished => (pc = "stopped" /\ n_extract = 1 /\ ExtractionFailureShown)

\* A run stopped on a PDF whose only text is whitespace.
C3_Witness ==
    /\ pc = "stopped"
    /\ upload_file.present
    /\ upload_file.opens
    /\ \E i \in DOMAIN upload_file.pages : upload_file.pages[i] = <<" ">>
    /\ resume_text = <<>>
    /\ ExtractionFailureShown

\* C8 as stated: the run a button press causes performs either one
\* extract_pdf_text call or one remote model call, not both and not more; at
\* most one network call per user action; no operation starts while another
\* is running.
C8_Original ==
    /\ Cardinality(running) <= 1
    /\ n_remote <= 1
    /\ (Finished /\ pressed /= "none") =>
          \/ n_extract = 1 /\ n_remote = 0
          \/ n_extract = 0 /\ n_remote = 1

\* C8 amended: the run a button press causes makes exactly one
\* extract_pdf_text call and, after it has returned, exactly one remote model
\* call for each of the six prompt buttons and none for Analyze Keyword
\* Coverage, which makes one keyword_coverage call instead; a run that no
\* button press caused makes no remote call; at most one network call is made
\* per user action and no operation starts while another is running.
C8_OnePerPress ==
    /\ Cardinality(running) <= 1
    /\ n_remote <= 1
    /\ n_extract <= 1
    /\ n_keyword <= 1
    /\ (n_remote > 0 \/ n_keyword > 0) => Extracted
    /\ pressed = "none" => (n_remote = 0 /\ n_keyword = 0)
    /\ (Finished /\ pressed /= "none") =>
          /\ n_extract = 1
          /\ IF pressed = KeywordButton
             THEN n_remote = 0 /\ n_keyword = 1
             ELSE n_remote = 1 /\ n_keyword = 0

\* The run of a press of Translate Resume, complete.
C8_Witness ==
    /\ pc = "done"
    /\ pressed = "Translate Resume"
    /\ n_extract = 1
    /\ n_remote = 1

\* C10: with GROQ_API_KEY absent or empty the run reports the error and
\* stops at once: the model client is never constructed, no widget is
\* rendered, and no extraction, keyword analysis or remote call happens.
C10_NoKeyHalts ==
    GROQ_API_KEY \in {None, <<>>} =>
        /\ model = "unset"
        /\ widgets = {}
        /\ running = {}
        /\ n_extract = 0
        /\ n_remote = 0
        /\ n_keyword = 0
        /\ pc \in {"startup", "stopped"}
        /\ pc = "stopped" => "GROQ_API_KEY not found" \in messages

\* A run stopped on an empty key.
C10_Witness ==
    /\ GROQ_API_KEY = <<>>
    /\ pc = "stopped"
    /\ "GROQ_API_KEY not found" \in messages

=============================================================================
